---- MODULE Spec2Model ----
(***************************************************************************)
(* Sandbox lifecycle orchestration of src/sandbox/sandbox.py: the HTTP     *)
(* endpoints, the orchestrator functions they delegate to, and the remote  *)
(* sandbox platform as far as the orchestrator observes it (a call either  *)
(* returns or raises).  One request is in flight per process slot; every   *)
(* remote call of a function is one step.  Of a sandbox's files the module *)
(* follows the secrets file /root/.opencode-env, line by line, through     *)
(* snapshot and resume, in the specifications that observe it (SpecFiles); *)
(* the other files are followed by the commands issued on them.            *)
(***************************************************************************)
EXTENDS Naturals, Integers, Sequences, FiniteSets, TLC

\* ---------------------------------------------------------------- bounds
MaxSandboxes == 2      \* sandbox identifiers the platform can hand out
MaxSnapshots == 2      \* snapshot identifiers the platform can hand out

\* ------------------------------------------------------ program constants
MaxAttempts == 30      \* range(30) of both health loops
PrefixLen == 7         \* auth_header[7:]

SandboxIds == 1..MaxSandboxes
SnapshotIds == 1..MaxSnapshots
Procs == {1}

\* ------------------------------------------------------------ Python values
NoneV == "<None>"                  \* None for string-valued arguments
NoneH == <<"<None>">>              \* None for character-sequence values
Truthy(x) == x # NoneV /\ x # ""   \* `if x:` on an optional string
TruthyH(h) == h # NoneH /\ h # <<>>

Bearer == <<"B", "e", "a", "r", "e", "r", " ">>
Secrets == {NoneH, <<>>, <<"s", "k">>}
Headers == {NoneH, <<>>, <<"B", "a", "s", "i", "c", " ", "s", "k">>,
            <<"b", "e", "a", "r", "e", "r", " ", "s", "k">>,
            Bearer \o <<"n", "o">>, Bearer \o <<"s", "k">>}

Repos == {NoneV, "owner/repo"}
Pats == {NoneV, "ghp_tok"}
ApiKeys == {NoneV, "sk-key1"}
ResumeKeys == {NoneV, "sk-key1", "sk-key2"}
HealthCodes == {"200", "503"}
CloneStderrs == {"fatal: repository not found"}

\* the secret values a request may carry
SecretValues == (Pats \cup ApiKeys \cup ResumeKeys) \ {NoneV}

\* ------------------------------------------------------------- verify_auth
StartsWith(h, pre) == Len(h) >= Len(pre) /\ SubSeq(h, 1, Len(pre)) = pre

\* 0: the request passes; 401 / 403: the HTTPException raised
VerifyAuth(auth_header, expected_secret) ==
    IF ~TruthyH(expected_secret) THEN 0
    ELSE IF ~TruthyH(auth_header) THEN 401
    ELSE IF ~StartsWith(auth_header, Bearer) THEN 401
    ELSE IF SubSeq(auth_header, PrefixLen + 1, Len(auth_header)) # expected_secret THEN 403
    ELSE 0

\* --------------------------------------------------------- command lines
\* An argument vector is a sequence of arguments; an argument is the sequence
\* of fragments an f-string concatenates, so an interpolated value stays
\* visible in the argument that carries it.
Lit(s) == <<s>>
CredCmd(pat) ==
    <<Lit("sh"), Lit("-c"),
      <<"umask 077 && echo 'https://x-access-token:", pat,
        "@github.com' > /root/.git-credentials">> >>
HelperCmd ==
    <<Lit("git"), Lit("config"), Lit("--global"), Lit("credential.helper"),
      Lit("store --file=/root/.git-credentials")>>
CloneCmd(repo) ==
    <<Lit("git"), Lit("clone"), <<"https://github.com/", repo, ".git">>,
      Lit("/workspace")>>
UserCmd(pat) ==
    <<Lit("curl"), Lit("-s"), Lit("-H"), <<"Authorization: Bearer ", pat>>,
      Lit("-H"), Lit("Accept: application/vnd.github+json"),
      Lit("https://api.github.com/user")>>
GitEmailCmd(email) ==
    <<Lit("git"), Lit("config"), Lit("--global"), Lit("user.email"), email>>
GitNameCmd(name) ==
    <<Lit("git"), Lit("config"), Lit("--global"), Lit("user.name"), name>>
MkdirCmd == <<Lit("mkdir"), Lit("-p"), Lit("/workspace")>>
ConfigCmd ==
    <<Lit("sh"), Lit("-c"),
      <<"echo '", "{\"server\": {\"port\": 4096, \"hostname\": \"0.0.0.0\"}}",
        "' > /workspace/opencode.json">> >>
TouchCmd == <<Lit("sh"), Lit("-c"), Lit("umask 077 && touch /root/.opencode-env")>>
GhTokenCmd(pat) ==
    <<Lit("sh"), Lit("-c"),
      <<"echo 'export GH_TOKEN=\"", pat, "\"' >> /root/.opencode-env">> >>
ApiKeyCmd(key) ==
    <<Lit("sh"), Lit("-c"),
      <<"echo 'export ANTHROPIC_API_KEY=\"", key, "\"' >> /root/.opencode-env">> >>
LaunchCmd ==
    <<Lit("sh"), Lit("-c"),
      Lit("cd /workspace && . /root/.opencode-env && nohup opencode serve --port 4096 --hostname 0.0.0.0 > /tmp/opencode.log 2>&1 &")>>
ResumeLaunchCmd ==
    <<Lit("sh"), Lit("-c"),
      Lit("cd /workspace && . /root/.opencode-env 2>/dev/null; opencode serve --port 4096 --hostname 0.0.0.0 > /tmp/opencode.log 2>&1 &")>>
HealthCmd ==
    <<Lit("curl"), Lit("-s"), Lit("-o"), Lit("/dev/null"), Lit("-w"),
      Lit("%{http_code}"), Lit("http://localhost:4096/global/health")>>
LogCmd == <<Lit("cat"), Lit("/tmp/opencode.log")>>

\* the value v occurs in some argument of argv
InArgv(argv, v) ==
    \E a \in 1..Len(argv) : \E f \in 1..Len(argv[a]) : argv[a][f] = v

\* ------------------------------------------------------------ identity JSON
\* stdout of the user-info request, by what json.loads makes of it
UserOutputs ==
    { [kind |-> "empty",  login |-> NoneV, email |-> NoneV, name |-> NoneV],
      [kind |-> "text",   login |-> NoneV, email |-> NoneV, name |-> NoneV],
      [kind |-> "array",  login |-> NoneV, email |-> NoneV, name |-> NoneV],
      [kind |-> "object", login |-> NoneV, email |-> NoneV, name |-> NoneV],
      [kind |-> "object", login |-> "octo", email |-> NoneV, name |-> NoneV],
      [kind |-> "object", login |-> "octo", email |-> "o@x.io", name |-> "Octo"] }
\* json.loads raises JSONDecodeError
JsonDecodeError(out) == out.kind \in {"empty", "text"}
\* user_data.get("login", "github-user"): the default covers an absent key
GithubUsername(out) == IF out.login = NoneV THEN "github-user" ELSE out.login
GithubEmail(out) ==
    IF Truthy(out.email) THEN <<out.email>>
    ELSE <<GithubUsername(out), "@users.noreply.github.com">>
GithubName(out) ==
    IF Truthy(out.name) THEN <<out.name>> ELSE <<GithubUsername(out)>>

\* ------------------------------------------------------------------- state
VARIABLES
    sbx,      \* the platform's sandboxes: "none", "alive" or "terminated" by identifier
    snaps,    \* the platform's filesystem snapshots: which identifiers exist
    files,    \* per observed sandbox: the lines of its /root/.opencode-env
    images,   \* per observed snapshot: the lines of the /root/.opencode-env it holds
    call      \* per process slot: the request in flight and the function's locals

vars == <<sbx, snaps, files, images, call>>

NoUser == [kind |-> "none", login |-> NoneV, email |-> NoneV, name |-> NoneV]

\* get_logs: `logs = {}`, a field is NoneV until its probe has filled it
LogFields == {"opencode", "processes", "health_check", "environment"}
NoLogs == [f \in LogFields |-> NoneV]

NoResult ==
    [kind |-> "none", keys |-> {}, sandbox_id |-> 0, tunnel_url |-> 0,
     snapshot_id |-> 0, success |-> FALSE, error |-> <<>>, logs |-> NoLogs]

IdleCall ==
    [op |-> "idle", pc |-> "idle", hdr |-> NoneH, secret |-> NoneH,
     repo |-> NoneV, pat |-> NoneV, key |-> NoneV, sid |-> 0, snapid |-> 0,
     path |-> NoneV, sb |-> 0, snap |-> 0, checks |-> 0, sleeps |-> 0, code |-> "",
     terms |-> 0, issued |-> {}, cmd |-> <<>>, stderr |-> "", user |-> NoUser,
     deadAtStart |-> FALSE, deadAtCapture |-> FALSE, rc |-> -1, tail |-> 100,
     logs |-> NoLogs,
     result |-> NoResult, http |-> 0]

Alive(id) == id \in SandboxIds /\ sbx[id] = "alive"

\* modal.Sandbox.from_id(id) hands back a handle: the identifier names a live
\* sandbox; for an unknown or terminated one the lookup raises "not found"
Resolves(id) == Alive(id)
\* modal.Image.from_id(id) names a snapshot the platform holds
ImageResolves(id) == id \in SnapshotIds /\ snaps[id]

\* one line of the secrets file: export NAME="value"
GhTokenLine(pat) == <<"GH_TOKEN", pat>>
ApiKeyLine(key) == <<"ANTHROPIC_API_KEY", key>>
\* sandbox_image installs git, node and opencode: it holds no secrets file
SandboxImage == <<>>

\* the secrets file of sandbox id / of snapshot id, where it is observed
FileOf(id) == IF id \in DOMAIN files THEN files[id] ELSE SandboxImage
ImageOf(id) == IF id \in DOMAIN images THEN images[id] ELSE SandboxImage
PutFile(id, lines) ==
    files' = IF id \in DOMAIN files THEN [files EXCEPT ![id] = lines] ELSE files
PutImage(id, lines) ==
    images' = IF id \in DOMAIN images THEN [images EXCEPT ![id] = lines] ELSE images

\* no sandbox, no snapshot, no request; file contents are not observed
Init ==
    /\ sbx = [i \in SandboxIds |-> "none"]
    /\ snaps = [i \in SnapshotIds |-> FALSE]
    /\ files = [i \in {} |-> <<>>]
    /\ images = [i \in {} |-> <<>>]
    /\ call = [p \in Procs |-> IdleCall]

\* ------------------------------------------------------------ call outcomes
PlatformError == <<"PlatformError">>
NotFound == <<"NotFound">>
AttributeError == <<"AttributeError">>

\* the function returned the dict res; the endpoint answers 200 with it
Returned(c, res) ==
    [c EXCEPT !.pc = "done", !.http = 200, !.result = [res EXCEPT !.kind = "returned"]]

\* the function raised and nothing between it and the endpoint catches: the
\* endpoint's `return await f.remote.aio(...)` re-raises, the framework
\* answers 500
Raised(c, err) ==
    [c EXCEPT !.pc = "done", !.http = 500,
              !.result = [NoResult EXCEPT !.kind = "raised", !.error = err]]

ErrorBody(err) == [NoResult EXCEPT !.keys = {"error"}, !.error = err]

\* sb.exec(*argv) of step `step` is issued
Ex(c, step, argv) == [c EXCEPT !.cmd = argv, !.issued = @ \cup {step}]

At(p, op, pc) == call[p].op = op /\ call[p].pc = pc
Set(p, c) == call' = [call EXCEPT ![p] = c]

\* One sb.exec(...).wait() of a function that lets a platform fault propagate:
\* the command runs and the function goes on as c2, or the remote call raises
\* (always so once the sandbox is gone).
ExecStep(p, c, c2) ==
    /\ \/ Alive(c.sb) /\ Set(p, c2)
       \/ Set(p, Raised(c, PlatformError))
    /\ UNCHANGED <<sbx, snaps, files, images>>

\* faulty variant: `>` for `>>`, the line replaces the file
AppendStep_Overwrites(p, c, c2, line) ==
    /\ \/ /\ Alive(c.sb)
          /\ Set(p, c2)
          /\ PutFile(c.sb, <<line>>)
       \/ /\ Set(p, Raised(c, PlatformError))
          /\ UNCHANGED files
    /\ UNCHANGED <<sbx, snaps, images>>

\* sb.exec("sh", "-c", "echo '<line>' >> /root/.opencode-env").wait(): the
\* line is appended to the sandbox's secrets file, or the remote call raises
AppendStep(p, c, c2, line) ==
    /\ \/ /\ Alive(c.sb)
          /\ Set(p, c2)
          /\ PutFile(c.sb, Append(FileOf(c.sb), line))
       \/ /\ Set(p, Raised(c, PlatformError))
          /\ UNCHANGED files
    /\ UNCHANGED <<sbx, snaps, images>>

\* the same inside `try: ... except Exception as e: return {"error": str(e)}`
TryExecStep(p, c, c2) ==
    /\ \/ Alive(c.sb) /\ Set(p, c2)
       \/ Set(p, Returned(c, ErrorBody(PlatformError)))
    /\ UNCHANGED <<sbx, snaps, files, images>>

\* ------------------------------------------------- platform: sandbox expiry
\* timeout=3600 / idle_timeout=600: the platform ends a sandbox on its own;
\* a sandbox that has ended has no files any more
Expire(id) ==
    /\ Alive(id)
    /\ sbx' = [sbx EXCEPT ![id] = "terminated"]
    /\ PutFile(id, <<>>)
    /\ UNCHANGED <<snaps, images, call>>

\* ------------------------------------------------------------ the gateway
FreeSandbox == \E id \in SandboxIds : sbx[id] = "none"
FreeSnapshot == \E id \in SnapshotIds : ~snaps[id]
NewSandbox == CHOOSE id \in SandboxIds :
    sbx[id] = "none" /\ \A j \in SandboxIds : sbx[j] = "none" => id <= j
NewSnapshot == CHOOSE id \in SnapshotIds :
    ~snaps[id] /\ \A j \in SnapshotIds : ~snaps[j] => id <= j

Endpoints ==
    {"create", "pause", "resume", "terminate", "list_files", "read_file", "get_logs"}
SidArgs == 0..MaxSandboxes       \* 0: sandbox_id absent from the body (or empty)
SnapArgs == 0..MaxSnapshots      \* 0: snapshot_id absent from the body (or empty)
Paths == {NoneV, "", "/workspace/a.txt"}
Tails == {0, 100}                \* body.get("tail", 100)

\* A POST arrives at endpoint op: its Authorization header, the secret in the
\* serving process's environment, and the JSON body.
ReceiveOf(p, ops, headers, secrets) ==
    /\ call[p].pc = "idle"
    /\ \E op \in ops, h \in headers, s \in secrets :
        \E r \in [repo : Repos, pat : Pats, key : ResumeKeys, sid : SidArgs,
                  snapid : SnapArgs, path : Paths, tail : Tails] :
            /\ op \in {"create", "resume"} => FreeSandbox
            /\ op = "pause" => FreeSnapshot
            /\ op # "create" => r.repo = NoneV /\ r.pat = NoneV
            /\ op = "create" => r.key \in ApiKeys
            /\ op \notin {"create", "resume"} => r.key = NoneV
            /\ op \in {"create", "resume"} => r.sid = 0
            /\ op # "resume" => r.snapid = 0
            /\ op # "read_file" => r.path = NoneV
            /\ op # "get_logs" => r.tail = 100
            /\ Set(p, [IdleCall EXCEPT !.op = op, !.pc = "recv", !.hdr = h, !.secret = s,
                                       !.repo = r.repo, !.pat = r.pat, !.key = r.key,
                                       !.sid = r.sid, !.snapid = r.snapid, !.path = r.path,
                                       !.tail = r.tail])
    /\ UNCHANGED <<sbx, snaps, files, images>>

Receive(p) == ReceiveOf(p, Endpoints, Headers, Secrets)

\* The handler delegates: it has taken the body's fields, and neither it nor
\* the function it calls reads the request's headers or the secret.
\* deadAtStart records whether sandbox_id named a live sandbox at that moment.
Dispatch(c, pc) ==
    [c EXCEPT !.pc = pc, !.hdr = NoneH, !.secret = NoneH,
              !.deadAtStart = (c.sid # 0 /\ ~Alive(c.sid))]
\* `if not sandbox_id: return {"error": "Missing ..."}`
Missing(c, msg) ==
    Returned([c EXCEPT !.hdr = NoneH, !.secret = NoneH], ErrorBody(<<msg>>))

\* the response has gone out: the slot is free for the next request
Respond(p) ==
    /\ call[p].pc = "done"
    /\ Set(p, IdleCall)
    /\ UNCHANGED <<sbx, snaps, files, images>>

ApiCreateSandbox(p) ==
    /\ At(p, "create", "recv")
    /\ Set(p, Dispatch(call[p], "create"))
    /\ UNCHANGED <<sbx, snaps, files, images>>

ApiPauseSandbox(p) ==
    /\ At(p, "pause", "recv")
    /\ \/ call[p].sid = 0 /\ Set(p, Missing(call[p], "Missing sandbox_id"))
       \/ call[p].sid # 0 /\ Set(p, Dispatch(call[p], "from_id"))
    /\ UNCHANGED <<sbx, snaps, files, images>>

ApiResumeSandbox(p) ==
    /\ At(p, "resume", "recv")
    /\ \/ call[p].snapid = 0 /\ Set(p, Missing(call[p], "Missing snapshot_id"))
       \/ call[p].snapid # 0 /\ Set(p, Dispatch(call[p], "image"))
    /\ UNCHANGED <<sbx, snaps, files, images>>

ApiTerminateSandbox(p) ==
    /\ At(p, "terminate", "recv")
    /\ \/ call[p].sid = 0 /\ Set(p, Missing(call[p], "Missing sandbox_id"))
       \/ call[p].sid # 0 /\ Set(p, Dispatch(call[p], "from_id"))
    /\ UNCHANGED <<sbx, snaps, files, images>>

ApiListFiles(p) ==
    /\ At(p, "list_files", "recv")
    /\ \/ call[p].sid = 0 /\ Set(p, Missing(call[p], "Missing sandbox_id"))
       \/ call[p].sid # 0 /\ Set(p, Dispatch(call[p], "from_id"))
    /\ UNCHANGED <<sbx, snaps, files, images>>

\* faulty variant: only sandbox_id is validated
ApiReadFile_IgnoresPath(p) ==
    /\ At(p, "read_file", "recv")
    /\ \/ call[p].sid = 0 /\ Set(p, Missing(call[p], "Missing sandbox_id or path"))
       \/ call[p].sid # 0 /\ Set(p, Dispatch(call[p], "from_id"))
    /\ UNCHANGED <<sbx, snaps, files, images>>

ApiReadFile(p) ==
    /\ At(p, "read_file", "recv")
    /\ \/ /\ call[p].sid = 0 \/ ~Truthy(call[p].path)
          /\ Set(p, Missing(call[p], "Missing sandbox_id or path"))
       \/ /\ call[p].sid # 0 /\ Truthy(call[p].path)
          /\ Set(p, Dispatch(call[p], "from_id"))
    /\ UNCHANGED <<sbx, snaps, files, images>>

ApiGetLogs(p) ==
    /\ At(p, "get_logs", "recv")
    /\ \/ call[p].sid = 0 /\ Set(p, Missing(call[p], "Missing sandbox_id"))
       \/ call[p].sid # 0 /\ Set(p, Dispatch(call[p], "from_id"))
    /\ UNCHANGED <<sbx, snaps, files, images>>

\* ------------------------------------------------------------ create_sandbox
AfterIdentity(c) == "config"
AfterClone(c) == IF Truthy(c.pat) THEN "user" ELSE AfterIdentity(c)
\* faulty variant: the else branch of `if repo:` is missing
AfterCred_NoMkdir(c) == IF Truthy(c.repo) THEN "clone" ELSE "config"
AfterCred(c) == IF Truthy(c.repo) THEN "clone" ELSE "mkdir"
AfterCreate(c) == IF Truthy(c.pat) THEN "cred" ELSE AfterCred(c)
AfterGhToken(c) == IF Truthy(c.key) THEN "apikey" ELSE "launch"
AfterTouch(c) == IF Truthy(c.pat) THEN "ghtoken" ELSE AfterGhToken(c)

\* modal.Sandbox.create(image=image, ...): a new sandbox whose files are
\* those of the image, or the platform raises
Allocate(p, pc2, image) ==
    /\ \/ /\ Set(p, [call[p] EXCEPT !.sb = NewSandbox, !.pc = pc2,
                                    !.issued = @ \cup {"create"}])
          /\ sbx' = [sbx EXCEPT ![NewSandbox] = "alive"]
          /\ PutFile(NewSandbox, image)
       \/ /\ Set(p, Raised(call[p], PlatformError))
          /\ UNCHANGED <<sbx, files>>
    /\ UNCHANGED <<snaps, images>>

\* sb.terminate(): the sandbox is torn down and the caller goes on as cOk, or
\* the call raises, leaves the sandbox as it is, and the caller goes on as cFail
TerminateStep(p, cOk, cFail) ==
    /\ \/ /\ Set(p, cOk)
          /\ sbx' = [sbx EXCEPT ![call[p].sb] = "terminated"]
          /\ PutFile(call[p].sb, <<>>)
       \/ /\ Set(p, cFail)
          /\ UNCHANGED <<sbx, files>>
    /\ UNCHANGED <<snaps, images>>
Term(c) == [c EXCEPT !.terms = @ + 1, !.issued = @ \cup {"terminate"}]

CreateAllocate(p) ==
    /\ At(p, "create", "create")
    /\ Allocate(p, AfterCreate(call[p]), SandboxImage)

CreateCred(p) ==
    /\ At(p, "create", "cred")
    /\ LET c == Ex(call[p], "cred", CredCmd(call[p].pat)) IN
       ExecStep(p, c, [c EXCEPT !.pc = "helper"])

CreateHelper(p) ==
    /\ At(p, "create", "helper")
    /\ LET c == Ex(call[p], "helper", HelperCmd) IN
       ExecStep(p, c, [c EXCEPT !.pc = AfterCred(c)])

\* git clone and the test of its return code
CreateClone(p) ==
    /\ At(p, "create", "clone")
    /\ LET c == Ex(call[p], "clone", CloneCmd(call[p].repo)) IN
       \/ ExecStep(p, c, [c EXCEPT !.pc = AfterClone(c)])
       \/ \E e \in CloneStderrs :
              /\ Alive(c.sb)
              /\ Set(p, [c EXCEPT !.pc = "clone_failed", !.stderr = e])
              /\ UNCHANGED <<sbx, snaps, files, images>>

\* clone failed: sb.terminate(), then raise with the captured stderr
CreateCloneFailed(p) ==
    /\ At(p, "create", "clone_failed")
    /\ LET c == Term(call[p]) IN
       TerminateStep(p, Raised(c, <<"Failed to clone repository: ", c.stderr>>),
                        Raised(c, PlatformError))

\* the user-info request and the parse of its output (user: user_output as
\* json.loads takes it): JSONDecodeError is caught, any other exception of the
\* try body is not, and json.loads of an array, a string, a number or null
\* returns a value without .get
CreateUser(p) ==
    /\ At(p, "create", "user")
    /\ LET c == Ex(call[p], "user", UserCmd(call[p].pat)) IN
       \E out \in UserOutputs :
           LET c1 == [c EXCEPT !.user = out] IN
           ExecStep(p, c,
               IF JsonDecodeError(out) THEN [c1 EXCEPT !.pc = AfterIdentity(c)]
               ELSE IF out.kind # "object" THEN Raised(c1, AttributeError)
               ELSE [c1 EXCEPT !.pc = "gitemail"])

CreateGitEmail(p) ==
    /\ At(p, "create", "gitemail")
    /\ LET c == Ex(call[p], "gitemail", GitEmailCmd(GithubEmail(call[p].user))) IN
       ExecStep(p, c, [c EXCEPT !.pc = "gitname"])

CreateGitName(p) ==
    /\ At(p, "create", "gitname")
    /\ LET c == Ex(call[p], "gitname", GitNameCmd(GithubName(call[p].user))) IN
       ExecStep(p, c, [c EXCEPT !.pc = AfterIdentity(c), !.user = NoUser])

CreateMkdir(p) ==
    /\ At(p, "create", "mkdir")
    /\ LET c == Ex(call[p], "mkdir", MkdirCmd) IN
       ExecStep(p, c, [c EXCEPT !.pc = "config"])

CreateConfig(p) ==
    /\ At(p, "create", "config")
    /\ LET c == Ex(call[p], "config", ConfigCmd) IN
       ExecStep(p, c, [c EXCEPT !.pc = "touch"])

CreateTouch(p) ==
    /\ At(p, "create", "touch")
    /\ LET c == Ex(call[p], "touch", TouchCmd) IN
       ExecStep(p, c, [c EXCEPT !.pc = AfterTouch(c)])

CreateGhToken(p) ==
    /\ At(p, "create", "ghtoken")
    /\ LET c == Ex(call[p], "ghtoken", GhTokenCmd(call[p].pat)) IN
       AppendStep(p, c, [c EXCEPT !.pc = AfterGhToken(c)], GhTokenLine(c.pat))

CreateApiKey(p) ==
    /\ At(p, "create", "apikey")
    /\ LET c == Ex(call[p], "apikey", ApiKeyCmd(call[p].key)) IN
       AppendStep(p, c, [c EXCEPT !.pc = "launch"], ApiKeyLine(c.key))

CreateLaunch(p) ==
    /\ At(p, "create", "launch")
    /\ LET c == Ex(call[p], "launch", LaunchCmd) IN
       ExecStep(p, c, [c EXCEPT !.pc = "health"])

\* ----------------------------------------------------------- health polling
HealthReady(code) == code = "200"
\* faulty variant: the loop gives up one attempt early
PollExhausted_OffByOne(n) == n = MaxAttempts - 1
PollExhausted(n) == n = MaxAttempts

\* the function after one iteration of `for i in range(30)` whose check
\* printed `code`: on "200" it breaks out to the tunnel lookup; otherwise it
\* sleeps and iterates, or (range exhausted) enters the loop's else branch
Polled(c, code, exhausted) ==
    LET c1 == [c EXCEPT !.checks = @ + 1, !.code = code] IN
    IF HealthReady(code) THEN [c1 EXCEPT !.pc = "tunnel"]
    ELSE LET c2 == [c1 EXCEPT !.sleeps = @ + 1] IN
         IF PollExhausted(c2.checks) THEN [c2 EXCEPT !.pc = exhausted] ELSE c2

CreateHealth(p) ==
    /\ At(p, "create", "health")
    /\ LET c == Ex(call[p], "health", HealthCmd) IN
       \E code \in HealthCodes : ExecStep(p, c, Polled(c, code, "log"))

\* the loop's else branch: read the server log ...
CreateLog(p) ==
    /\ At(p, "create", "log")
    /\ LET c == Ex(call[p], "log", LogCmd) IN
       ExecStep(p, c, [c EXCEPT !.pc = "not_ready"])

\* ... then sb.terminate() and raise
CreateNotReady(p) ==
    /\ At(p, "create", "not_ready")
    /\ LET c == Term(call[p]) IN
       TerminateStep(p, Raised(c, <<"OpenCode server failed to start">>),
                        Raised(c, PlatformError))

\* sb.tunnels()[4096].url and the return
TunnelStep(p) ==
    LET c == [call[p] EXCEPT !.issued = @ \cup {"tunnels"}] IN
    /\ \/ /\ Alive(c.sb)
          /\ Set(p, Returned(c, [NoResult EXCEPT !.keys = {"sandbox_id", "tunnel_url"},
                                                 !.sandbox_id = c.sb, !.tunnel_url = c.sb]))
       \/ Set(p, Raised(c, PlatformError))
    /\ UNCHANGED <<sbx, snaps, files, images>>

CreateTunnel(p) ==
    /\ At(p, "create", "tunnel")
    /\ TunnelStep(p)

\* ------------------------------------------------------------- pause_sandbox
\* modal.Sandbox.from_id(sandbox_id), outside any try: an identifier that is
\* unknown or whose sandbox is gone raises
PauseFromId(p) ==
    /\ At(p, "pause", "from_id")
    /\ \/ /\ Resolves(call[p].sid)
          /\ Set(p, [call[p] EXCEPT !.sb = call[p].sid, !.pc = "snapshot"])
       \/ /\ ~Resolves(call[p].sid)
          /\ Set(p, Raised(call[p], NotFound))
    /\ UNCHANGED <<sbx, snaps, files, images>>

\* faulty variant: the except branch tears the sandbox down before returning
PauseSnapshot_TearsDown(p) ==
    /\ At(p, "pause", "snapshot")
    /\ LET c == [call[p] EXCEPT !.issued = @ \cup {"snapshot"},
                                !.deadAtCapture = ~Alive(call[p].sb)] IN
       \/ /\ Alive(c.sb) /\ FreeSnapshot
          /\ Set(p, [c EXCEPT !.snap = NewSnapshot, !.pc = "terminate"])
          /\ snaps' = [snaps EXCEPT ![NewSnapshot] = TRUE]
          /\ PutImage(NewSnapshot, FileOf(c.sb))
          /\ UNCHANGED <<sbx, files>>
       \/ /\ Set(p, Returned(c, ErrorBody(<<"Snapshot failed: ", PlatformError[1]>>)))
          /\ sbx' = [sbx EXCEPT ![c.sb] = "terminated"]
          /\ PutFile(c.sb, <<>>)
          /\ UNCHANGED <<snaps, images>>

\* faulty variant: the except branch only logs, and the function goes on to
\* terminate and return with no snapshot taken
PauseSnapshot_Continues(p) ==
    /\ At(p, "pause", "snapshot")
    /\ LET c == [call[p] EXCEPT !.issued = @ \cup {"snapshot"},
                                !.deadAtCapture = ~Alive(call[p].sb)] IN
       \/ /\ Alive(c.sb) /\ FreeSnapshot
          /\ Set(p, [c EXCEPT !.snap = NewSnapshot, !.pc = "terminate"])
          /\ snaps' = [snaps EXCEPT ![NewSnapshot] = TRUE]
          /\ PutImage(NewSnapshot, FileOf(c.sb))
          /\ UNCHANGED <<sbx, files>>
       \/ /\ Set(p, [c EXCEPT !.pc = "terminate"])
          /\ UNCHANGED <<sbx, snaps, files, images>>

\* try: sb.snapshot_filesystem()  except: return {"error": "Snapshot failed: ..."}
\* (the platform captures while the sandbox is alive and it has an identifier
\* left; deadAtCapture records that the sandbox was gone when the call was issued)
PauseSnapshot(p) ==
    /\ At(p, "pause", "snapshot")
    /\ LET c == [call[p] EXCEPT !.issued = @ \cup {"snapshot"},
                                !.deadAtCapture = ~Alive(call[p].sb)] IN
       \/ /\ Alive(c.sb) /\ FreeSnapshot
          /\ Set(p, [c EXCEPT !.snap = NewSnapshot, !.pc = "terminate"])
          /\ snaps' = [snaps EXCEPT ![NewSnapshot] = TRUE]
          /\ PutImage(NewSnapshot, FileOf(c.sb))
          /\ UNCHANGED <<sbx, files>>
       \/ /\ Set(p, Returned(c, ErrorBody(<<"Snapshot failed: ", PlatformError[1]>>)))
          /\ UNCHANGED <<sbx, snaps, files, images>>

\* faulty variant: a raise of sb.terminate() becomes the operation's error
PauseTerminate_Surfaces(p) ==
    /\ At(p, "pause", "terminate")
    /\ LET c == Term(call[p]) IN
       TerminateStep(p, Returned(c, [NoResult EXCEPT !.keys = {"snapshot_id"},
                                                    !.snapshot_id = c.snap]),
                        Returned(c, ErrorBody(PlatformError)))

\* try: sb.terminate()  except: (logged);  return {"snapshot_id": snapshot_id}
PauseTerminate(p) ==
    /\ At(p, "pause", "terminate")
    /\ LET c == Term(call[p])
           r == Returned(c, [NoResult EXCEPT !.keys = {"snapshot_id"},
                                             !.snapshot_id = c.snap]) IN
       TerminateStep(p, r, r)

\* ------------------------------------------------------------ resume_sandbox
AfterResumeCreate(c) == IF Truthy(c.key) THEN "apikey" ELSE "launch"

\* modal.Image.from_id(snapshot_id): an unknown snapshot raises
ResumeImage(p) ==
    /\ At(p, "resume", "image")
    /\ \/ /\ ImageResolves(call[p].snapid)
          /\ Set(p, [call[p] EXCEPT !.snap = call[p].snapid, !.pc = "create"])
       \/ /\ ~ImageResolves(call[p].snapid)
          /\ Set(p, Raised(call[p], NotFound))
    /\ UNCHANGED <<sbx, snaps, files, images>>

\* faulty variant: the sandbox is created from sandbox_image, as in
\* create_sandbox, not from the snapshot
ResumeAllocate_FromBase(p) ==
    /\ At(p, "resume", "create")
    /\ Allocate(p, AfterResumeCreate(call[p]), SandboxImage)

ResumeAllocate(p) ==
    /\ At(p, "resume", "create")
    /\ Allocate(p, AfterResumeCreate(call[p]), ImageOf(call[p].snap))

ResumeApiKey(p) ==
    /\ At(p, "resume", "apikey")
    /\ LET c == Ex(call[p], "apikey", ApiKeyCmd(call[p].key)) IN
       AppendStep(p, c, [c EXCEPT !.pc = "launch"], ApiKeyLine(c.key))

ResumeLaunch(p) ==
    /\ At(p, "resume", "launch")
    /\ LET c == Ex(call[p], "launch", ResumeLaunchCmd) IN
       ExecStep(p, c, [c EXCEPT !.pc = "health"])

\* faulty variant: the loop's else branch tears the sandbox down, as in
\* create_sandbox, before it raises
ResumeHealth_TearsDown(p) ==
    /\ At(p, "resume", "health")
    /\ LET c == Ex(call[p], "health", HealthCmd) IN
       \E code \in HealthCodes :
           LET c2 == Polled(c, code, "exhausted") IN
           IF c2.pc = "exhausted"
           THEN \/ /\ Alive(c.sb)
                   /\ Set(p, Raised(Term(c2), <<"OpenCode server failed to start after resume">>))
                   /\ sbx' = [sbx EXCEPT ![c.sb] = "terminated"]
                   /\ PutFile(c.sb, <<>>)
                   /\ UNCHANGED <<snaps, images>>
                \/ /\ Set(p, Raised(c, PlatformError))
                   /\ UNCHANGED <<sbx, snaps, files, images>>
           ELSE ExecStep(p, c, c2)

\* the loop's else branch raises at once
ResumeHealth(p) ==
    /\ At(p, "resume", "health")
    /\ LET c == Ex(call[p], "health", HealthCmd) IN
       \E code \in HealthCodes :
           LET c2 == Polled(c, code, "exhausted") IN
           ExecStep(p, c,
               IF c2.pc = "exhausted"
               THEN Raised(c2, <<"OpenCode server failed to start after resume">>)
               ELSE c2)

ResumeTunnel(p) ==
    /\ At(p, "resume", "tunnel")
    /\ TunnelStep(p)

\* --------------------------------------------------------- terminate_sandbox
\* try: from_id; terminate; return {"success": True}
\* except Exception as e: return {"success": False, "error": str(e)}
Failure(err) == [NoResult EXCEPT !.keys = {"success", "error"}, !.success = FALSE, !.error = err]
Success == [NoResult EXCEPT !.keys = {"success"}, !.success = TRUE]

\* faulty variant: the lookup stands outside the try, as in pause_sandbox
TerminateFromId_Unguarded(p) ==
    /\ At(p, "terminate", "from_id")
    /\ \/ /\ Resolves(call[p].sid)
          /\ Set(p, [call[p] EXCEPT !.sb = call[p].sid, !.pc = "terminate"])
       \/ /\ ~Resolves(call[p].sid)
          /\ Set(p, Raised(call[p], NotFound))
    /\ UNCHANGED <<sbx, snaps, files, images>>

TerminateFromId(p) ==
    /\ At(p, "terminate", "from_id")
    /\ \/ /\ Resolves(call[p].sid)
          /\ Set(p, [call[p] EXCEPT !.sb = call[p].sid, !.pc = "terminate"])
       \/ /\ ~Resolves(call[p].sid)
          /\ Set(p, Returned(call[p], Failure(NotFound)))
    /\ UNCHANGED <<sbx, snaps, files, images>>

TerminateTeardown(p) ==
    /\ At(p, "terminate", "terminate")
    /\ LET c == Term(call[p]) IN
       TerminateStep(p, Returned(c, Success), Returned(c, Failure(PlatformError)))

\* ------------------------------------------------- list_files / read_file / get_logs
\* faulty variant: the except branch answers with an empty listing
TryFromId_Swallows(p, pc2) ==
    /\ \/ /\ Resolves(call[p].sid)
          /\ Set(p, [call[p] EXCEPT !.sb = call[p].sid, !.pc = pc2])
       \/ /\ ~Resolves(call[p].sid)
          /\ Set(p, Returned(call[p], [NoResult EXCEPT !.keys = {"files"}]))
    /\ UNCHANGED <<sbx, snaps, files, images>>

\* Sandbox.from_id inside the function's try
TryFromId(p, pc2) ==
    /\ \/ /\ Resolves(call[p].sid)
          /\ Set(p, [call[p] EXCEPT !.sb = call[p].sid, !.pc = pc2])
       \/ /\ ~Resolves(call[p].sid)
          /\ Set(p, Returned(call[p], ErrorBody(NotFound)))
    /\ UNCHANGED <<sbx, snaps, files, images>>

FindCmd(path) ==
    <<Lit("sh"), Lit("-c"),
      <<"find ", path, " -maxdepth 1 -printf '%y|%s|%p\\n' 2>/dev/null | tail -n +2">> >>
TestCmd(path) == <<Lit("test"), Lit("-f"), <<path>> >>
CatCmd(path) == <<Lit("cat"), <<path>> >>
TailCmd(tail) == <<Lit("sh"), Lit("-c"), <<"tail -n ", tail, " /tmp/opencode.log 2>/dev/null || echo '[no logs]'">> >>
PsCmd == <<Lit("sh"), Lit("-c"), Lit("ps aux | grep -E 'opencode|node' | grep -v grep || echo '[no process]'")>>
PortCmd == <<Lit("sh"), Lit("-c"), Lit("curl -s http://localhost:4096/global/health 2>/dev/null || echo 'NOT_RESPONDING'")>>
EnvCmd == <<Lit("sh"), Lit("-c"), Lit("env | grep -v API_KEY | grep -v TOKEN | grep -v SECRET | sort")>>

Payload(key) == [NoResult EXCEPT !.keys = {key}]

\* what the sandbox holds when a probe runs
LogStates == {"missing", "empty", "lines"}       \* /tmp/opencode.log
PsStates == {"none", "running"}                  \* opencode / node processes
PortStates == {"refused", "empty", "body"}       \* the answer on port 4096
EnvStates == {"none", "variables"}               \* variables left by the three grep -v

\* stdout of `tail -n N log 2>/dev/null || echo '[no logs]'`: tail fails on
\* a missing file only; of an empty file, or with N = 0, it prints nothing
TailOut(log, n) ==
    IF log = "missing" THEN "[no logs]"
    ELSE IF log = "empty" \/ n = 0 THEN ""
    ELSE "<log lines>"
\* stdout of `ps aux | grep -E ... | grep -v grep || echo '[no process]'`:
\* the pipeline's status is that of the last grep, 1 when it selects no line
PsOut(ps) == IF ps = "none" THEN "[no process]" ELSE "<processes>"
\* stdout of `curl -s URL 2>/dev/null || echo 'NOT_RESPONDING'`: curl fails
\* when nothing answers; an answer with an empty body is a success
PortOut(port) ==
    IF port = "refused" THEN "NOT_RESPONDING"
    ELSE IF port = "empty" THEN ""
    ELSE "<health body>"
\* stdout of `env | grep -v API_KEY | grep -v TOKEN | grep -v SECRET | sort`
EnvOut(env) == IF env = "none" THEN "" ELSE "<variables>"

ListFilesFromId(p) ==
    /\ At(p, "list_files", "from_id")
    /\ TryFromId(p, "find")

ListFilesFind(p) ==
    /\ At(p, "list_files", "find")
    /\ LET c == Ex(call[p], "find", FindCmd("/workspace")) IN
       TryExecStep(p, c, Returned(c, Payload("files")))

ReadFileFromId(p) ==
    /\ At(p, "read_file", "from_id")
    /\ TryFromId(p, "test")

\* faulty variant: the return code of the existence check is not tested
ReadFileTest_Ignores(p) ==
    /\ At(p, "read_file", "test")
    /\ LET c == Ex(call[p], "test", TestCmd(call[p].path)) IN
       \E rc \in {0, 1} : TryExecStep(p, c, [c EXCEPT !.rc = rc, !.pc = "cat"])

\* sb.exec("test", "-f", path) and the test of its return code (rc)
ReadFileTest(p) ==
    /\ At(p, "read_file", "test")
    /\ LET c == Ex(call[p], "test", TestCmd(call[p].path)) IN
       \/ TryExecStep(p, c, [c EXCEPT !.rc = 0, !.pc = "cat"])
       \/ /\ Alive(c.sb)
          /\ Set(p, Returned([c EXCEPT !.rc = 1], ErrorBody(<<"File not found">>)))
          /\ UNCHANGED <<sbx, snaps, files, images>>

ReadFileCat(p) ==
    /\ At(p, "read_file", "cat")
    /\ LET c == Ex(call[p], "cat", CatCmd(call[p].path)) IN
       TryExecStep(p, c, Returned(c, Payload("content")))

GetLogsFromId(p) ==
    /\ At(p, "get_logs", "from_id")
    /\ TryFromId(p, "tail")

GetLogsTail(p) ==
    /\ At(p, "get_logs", "tail")
    /\ LET c == Ex(call[p], "tail", TailCmd(call[p].tail)) IN
       \E log \in LogStates :
           TryExecStep(p, c, [c EXCEPT !.pc = "ps",
                                       !.logs.opencode = TailOut(log, c.tail)])

GetLogsPs(p) ==
    /\ At(p, "get_logs", "ps")
    /\ LET c == Ex(call[p], "ps", PsCmd) IN
       \E ps \in PsStates :
           TryExecStep(p, c, [c EXCEPT !.pc = "port", !.logs.processes = PsOut(ps)])

GetLogsPort(p) ==
    /\ At(p, "get_logs", "port")
    /\ LET c == Ex(call[p], "port", PortCmd) IN
       \E port \in PortStates :
           TryExecStep(p, c, [c EXCEPT !.pc = "env", !.logs.health_check = PortOut(port)])

GetLogsEnv(p) ==
    /\ At(p, "get_logs", "env")
    /\ LET c == Ex(call[p], "env", EnvCmd) IN
       \E env \in EnvStates :
           LET logs == [c.logs EXCEPT !.environment = EnvOut(env)] IN
           TryExecStep(p, c, Returned([c EXCEPT !.logs = logs],
                                      [Payload("logs") EXCEPT !.logs = logs]))

\* ------------------------------------------------------------ specification
Next ==
    \/ \E id \in SandboxIds : Expire(id)
    \/ \E p \in Procs :
        \/ Receive(p)
        \/ Respond(p)
        \/ ApiCreateSandbox(p)
        \/ ApiPauseSandbox(p)
        \/ ApiResumeSandbox(p)
        \/ ApiTerminateSandbox(p)
        \/ ApiListFiles(p)
        \/ ApiReadFile(p)
        \/ ApiGetLogs(p)
        \/ CreateAllocate(p)
        \/ CreateCred(p)
        \/ CreateHelper(p)
        \/ CreateClone(p)
        \/ CreateCloneFailed(p)
        \/ CreateUser(p)
        \/ CreateGitEmail(p)
        \/ CreateGitName(p)
        \/ CreateMkdir(p)
        \/ CreateConfig(p)
        \/ CreateTouch(p)
        \/ CreateGhToken(p)
        \/ CreateApiKey(p)
        \/ CreateLaunch(p)
        \/ CreateHealth(p)
        \/ CreateLog(p)
        \/ CreateNotReady(p)
        \/ CreateTunnel(p)
        \/ PauseFromId(p)
        \/ PauseSnapshot(p)
        \/ PauseTerminate(p)
        \/ ResumeImage(p)
        \/ ResumeAllocate(p)
        \/ ResumeApiKey(p)
        \/ ResumeLaunch(p)
        \/ ResumeHealth(p)
        \/ ResumeTunnel(p)
        \/ TerminateFromId(p)
        \/ TerminateTeardown(p)
        \/ ListFilesFromId(p)
        \/ ListFilesFind(p)
        \/ ReadFileFromId(p)
        \/ ReadFileTest(p)
        \/ ReadFileCat(p)
        \/ GetLogsFromId(p)
        \/ GetLogsTail(p)
        \/ GetLogsPs(p)
        \/ GetLogsPort(p)
        \/ GetLogsEnv(p)

Spec == Init /\ [][Next]_vars

\* `. /root/.opencode-env` of the launch commands: the value the shell holds
\* for `name` after sourcing the lines in order (NoneV: unset)
Sourced(lines, name) ==
    LET I == {i \in 1..Len(lines) : lines[i][1] = name} IN
    IF I = {} THEN NoneV
    ELSE lines[CHOOSE i \in I : \A j \in I : j <= i][2]

\* ------------------------------------- specification: snapshots and resumes
\* The secrets file create_sandbox leaves for (pat, anthropic_api_key).
SecretsFile(pat, key) ==
    (IF Truthy(pat) THEN <<GhTokenLine(pat)>> ELSE <<>>)
        \o (IF Truthy(key) THEN <<ApiKeyLine(key)>> ELSE <<>>)

\* A sandbox provisioned and paused earlier has left snapshot 1; the secrets
\* files of all sandboxes and snapshots are observed.
InitFiles ==
    /\ sbx = [i \in SandboxIds |-> "none"]
    /\ snaps = [i \in SnapshotIds |-> i = 1]
    /\ files = [i \in SandboxIds |-> <<>>]
    /\ \E pat \in Pats, key \in ApiKeys :
           images = [i \in SnapshotIds |-> IF i = 1 THEN SecretsFile(pat, key) ELSE <<>>]
    /\ call = [p \in Procs |-> IdleCall]

\* requests to the pause and resume endpoints, without Authorization header
\* and with no secret configured
NextFiles ==
    \/ \E id \in SandboxIds : Expire(id)
    \/ \E p \in Procs :
        \/ ReceiveOf(p, {"pause", "resume"}, {NoneH}, {NoneH})
        \/ Respond(p)
        \/ ApiPauseSandbox(p)
        \/ ApiResumeSandbox(p)
        \/ PauseFromId(p)
        \/ PauseSnapshot(p)
        \/ PauseTerminate(p)
        \/ ResumeImage(p)
        \/ ResumeAllocate(p)
        \/ ResumeApiKey(p)
        \/ ResumeLaunch(p)
        \/ ResumeHealth(p)
        \/ ResumeTunnel(p)

SpecFiles == InitFiles /\ [][NextFiles]_vars

\* ------------------------------- specification: concurrent pause / terminate
\* Two requests can be in flight at once: every call runs as a function
\* invocation of its own, and nothing in the module coordinates them.
RaceProcs == {1, 2}

\* Sandbox 1 has been provisioned; no snapshot, no request.
InitRace ==
    /\ sbx = [i \in SandboxIds |-> IF i = 1 THEN "alive" ELSE "none"]
    /\ snaps = [i \in SnapshotIds |-> FALSE]
    /\ files = [i \in {} |-> <<>>]
    /\ images = [i \in {} |-> <<>>]
    /\ call = [p \in RaceProcs |-> IdleCall]

\* the steps of the request in slot p, once it has arrived
Handle(p) ==
    \/ ApiPauseSandbox(p)
    \/ ApiTerminateSandbox(p)
    \/ PauseFromId(p)
    \/ PauseSnapshot(p)
    \/ PauseTerminate(p)
    \/ TerminateFromId(p)
    \/ TerminateTeardown(p)

\* requests to the pause and terminate endpoints, without Authorization
\* header and with no secret configured
NextRace ==
    \/ \E id \in SandboxIds : Expire(id)
    \/ \E p \in RaceProcs :
        \/ ReceiveOf(p, {"pause", "terminate"}, {NoneH}, {NoneH})
        \/ Respond(p)
        \/ Handle(p)

\* a started call is run to its end: each remote call returns or raises, and
\* neither function waits for anything else
SpecRace == InitRace /\ [][NextRace]_vars /\ \A p \in RaceProcs : WF_vars(Handle(p))

\* ================================================================ properties
Done(p, op) == call[p].op = op /\ call[p].pc = "done"
Token(h) == SubSeq(h, PrefixLen + 1, Len(h))
Rejected(c, status) == c.pc = "done" /\ c.http = status /\ c.issued = {} /\ c.sb = 0

\* C1: at every endpoint but health, with a secret configured a request
\* without Authorization header, or with one not starting "Bearer ", is
\* answered 401, one with "Bearer <wrong secret>" 403, each without the
\* orchestrator function being invoked; without a secret configured a request
\* without header is accepted.
C1_AuthEnforced ==
    [][\A p \in Procs :
          (call[p].pc = "recv" /\ call'[p] # call[p]) =>
              LET h == call[p].hdr
                  s == call[p].secret IN
              /\ (TruthyH(s) /\ h = NoneH) => Rejected(call'[p], 401)
              /\ (TruthyH(s) /\ h # NoneH /\ ~StartsWith(h, Bearer)) => Rejected(call'[p], 401)
              /\ (TruthyH(s) /\ h # NoneH /\ StartsWith(h, Bearer) /\ Token(h) # s)
                     => Rejected(call'[p], 403)
              /\ (~TruthyH(s) /\ h = NoneH) => call'[p].http \notin {401, 403}]_vars

\* C2: no command issued to the sandbox by Provision or Resume carries the
\* source-control token or the model API key in its argument vector.
C2_NoSecretInArgv ==
    \A p \in Procs :
        call[p].op \in {"create", "resume"} =>
            \A v \in SecretValues : ~InArgv(call[p].cmd, v)

LaterSteps ==
    {"user", "gitemail", "gitname", "config", "touch", "ghtoken", "apikey",
     "launch", "health", "log", "tunnels"}
CloneFailed(p) == Done(p, "create") /\ call[p].stderr # ""

\* C3: a Provision whose clone exits non-zero ends with its sandbox
\* terminated and the failure carrying the clone's stderr, with no tunnel URL
\* resolved or returned and no later step issued.
C3_CloneFailureTearsDown ==
    \A p \in Procs :
        CloneFailed(p) =>
            /\ sbx[call[p].sb] = "terminated"
            /\ call[p].result.kind = "raised"
            /\ call[p].result.error = <<"Failed to clone repository: ", call[p].stderr>>
            /\ call[p].result.keys = {}
            /\ call[p].issued \cap LaterSteps = {}

PollRanOut(c) == c.checks = MaxAttempts /\ c.code # "200"

\* C4: a Provision in which no health check returns "200" within the polling
\* budget reads the server log, terminates its sandbox, fails with "server
\* did not become ready", and resolves or returns no tunnel URL.
C4_NotReadyTearsDown ==
    \A p \in Procs :
        (Done(p, "create") /\ PollRanOut(call[p])) =>
            /\ "log" \in call[p].issued
            /\ sbx[call[p].sb] = "terminated"
            /\ call[p].result.kind = "raised"
            /\ call[p].result.error = <<"OpenCode server failed to start">>
            /\ "tunnels" \notin call[p].issued
            /\ call[p].result.keys = {}

\* the call has left the loop through its else branch
Exhausted(c) ==
    \/ c.op = "create" /\ (c.pc \in {"log", "not_ready"} \/ "log" \in c.issued)
    \/ c.op = "resume" /\ c.result.error = <<"OpenCode server failed to start after resume">>
\* the call has left the loop through break
Ready(c) == c.pc = "tunnel" \/ "tunnels" \in c.issued

C5_Poll ==
    \A p \in Procs :
        LET c == call[p] IN
        c.op \in {"create", "resume"} =>
            /\ c.checks <= MaxAttempts
            /\ Exhausted(c) => /\ c.checks = MaxAttempts /\ c.sleeps = MaxAttempts
                               /\ c.code # "200" /\ ~Ready(c)
                               /\ c.pc = "done" => c.result.kind = "raised"
            /\ Ready(c) => /\ c.code = "200" /\ c.checks \in 1..MaxAttempts
                           /\ c.sleeps = c.checks - 1
            /\ (c.code = "200" /\ c.pc # "done") => c.pc = "tunnel"
            /\ (c.pc = "health" /\ c.checks > 0) => (c.code # "200" /\ c.sleeps = c.checks)
            /\ (PollRanOut(c) /\ c.pc # "health") => (Exhausted(c) \/ c.pc = "done")

\* C5: health polling in Provision and Resume is bounded: with every check
\* non-200 exactly 30 checks are issued and the loop ends exhausted (the
\* operation fails); with the first 200 on attempt k exactly k checks and k-1
\* waits are issued, none follows, and the operation goes on to the tunnel
\* lookup; a 200 never ends exhausted, an all-non-200 run never ready.
C5_HealthPollingBounded ==
    /\ []C5_Poll
    /\ [][\A p \in Procs :
             (call[p].code = "200" /\ call'[p].op = call[p].op) =>
                 /\ call'[p].checks = call[p].checks
                 /\ call'[p].sleeps = call[p].sleeps]_vars

C5_Witness ==
    \E p \in Procs :
        /\ Done(p, "resume") /\ Exhausted(call[p])
        /\ call[p].checks = MaxAttempts

CaptureFailed(c) == c.op = "pause" /\ "snapshot" \in c.issued /\ c.snap = 0

\* C6: a Pause whose snapshot capture fails returns a structured {error},
\* issues no terminate, returns no snapshot_id, and none of its steps changes
\* any sandbox's status.
C6_SnapshotFailureLeavesSandbox ==
    /\ [](\A p \in Procs :
             CaptureFailed(call[p]) =>
                 /\ call[p].pc = "done"
                 /\ call[p].result.kind = "returned"
                 /\ call[p].result.keys = {"error"}
                 /\ call[p].result.error[1] = "Snapshot failed: "
                 /\ call[p].result.snapshot_id = 0
                 /\ call[p].terms = 0 /\ "terminate" \notin call[p].issued)
    /\ [][\A p \in Procs :
             (call[p].op = "pause" /\ call'[p] # call[p] /\ call'[p].snap = 0)
                 => (sbx' = sbx /\ snaps' = snaps)]_vars

C6_Witness ==
    \E p \in Procs :
        /\ Done(p, "pause") /\ CaptureFailed(call[p])
        /\ Alive(call[p].sb)

\* C7: a Pause whose snapshot capture succeeds attempts terminate exactly
\* once, after the capture, and returns {snapshot_id} with the captured
\* identifier whether terminate succeeds or raises; the raise is never the
\* operation's error.
C7_SnapshotSuccessReturnsId ==
    \A p \in Procs :
        LET c == call[p] IN
        c.op = "pause" =>
            /\ c.pc \in {"recv", "from_id", "snapshot", "terminate"} => c.terms = 0
            /\ c.terms > 0 => (c.snap # 0 /\ "snapshot" \in c.issued)
            /\ (c.pc = "done" /\ c.snap # 0) =>
                   /\ c.terms = 1
                   /\ c.result.kind = "returned" /\ c.http = 200
                   /\ c.result.keys = {"snapshot_id"}
                   /\ c.result.snapshot_id = c.snap /\ snaps[c.snap]

C7_Witness ==
    \E p \in Procs :
        /\ Done(p, "pause") /\ call[p].result.keys = {"snapshot_id"}
        /\ call[p].terms = 1 /\ Alive(call[p].sb)

\* C8: Terminate always returns a structured result, never a fault:
\* {success: true} when lookup and teardown both succeed, {success: false,
\* error} when the lookup or the teardown fails.
C8_TerminateStructured ==
    \A p \in Procs :
        LET c == call[p]
            r == call[p].result IN
        (Done(p, "terminate") /\ c.sid # 0) =>
            /\ r.kind = "returned" /\ c.http = 200
            /\ IF c.sb = 0
               THEN /\ r.keys = {"success", "error"} /\ ~r.success
                    /\ r.error = NotFound /\ c.terms = 0
               ELSE /\ c.terms = 1
                    /\ \/ r.keys = {"success"} /\ r.success /\ sbx[c.sb] = "terminated"
                       \/ r.keys = {"success", "error"} /\ ~r.success /\ r.error = PlatformError

C8_Witness ==
    \E p \in Procs :
        /\ Done(p, "terminate") /\ call[p].sb # 0
        /\ ~call[p].result.success /\ call[p].result.error = PlatformError

\* C9: apart from auth rejections every endpoint answers HTTP 200 with a
\* success payload or an {"error": ...} body; no failure of the underlying
\* operation leaves the endpoint as an unhandled fault.
C9_AlwaysHttp200 ==
    \A p \in Procs :
        call[p].pc = "done" =>
            /\ call[p].http = 200
            /\ call[p].result.kind = "returned"

SuccessKeys == {"snapshot_id", "files", "content", "logs", "sandbox_id", "tunnel_url"}

\* C10: Pause, Terminate, ListFiles, ReadFile and GetLogs invoked with the
\* identifier of a terminated or never-created sandbox fail with "not
\* found"; none returns a success payload.
C10_DeadHandleNotFound ==
    \A p \in Procs :
        LET c == call[p]
            r == call[p].result IN
        (c.op \in {"pause", "terminate", "list_files", "read_file", "get_logs"}
            /\ c.pc = "done" /\ c.deadAtStart) =>
            /\ r.error = NotFound
            /\ r.kind = "raised" \/ (r.kind = "returned" /\ "error" \in r.keys)
            /\ r.keys \cap SuccessKeys = {}
            /\ ~r.success
            /\ c.issued = {} /\ c.terms = 0

C10_Witness ==
    \E p \in Procs :
        /\ Done(p, "terminate") /\ call[p].deadAtStart
        /\ sbx[call[p].sid] = "terminated"

\* the git configuration commands of create_sandbox
GitConfigSteps == {"helper", "gitemail", "gitname"}
\* what /workspace holds once the call has returned its sandbox, by the
\* commands that wrote into it
Workspace(c) ==
    (IF "clone" \in c.issued THEN {"<repository>"} ELSE {})
        \cup (IF "config" \in c.issued THEN {"opencode.json"} ELSE {})
Provisioned(c) ==
    c.op = "create" /\ c.pc = "done" /\ c.result.keys = {"sandbox_id", "tunnel_url"}

\* C11: a Provision without repository reference, whatever token and API key
\* it is given, issues no clone and no identity lookup, runs no git
\* configuration command (credential helper, user.name, user.email), and
\* leaves /workspace existing and empty in the sandbox it returns.
C11_NoRepoCleanWorkspace ==
    \A p \in Procs :
        LET c == call[p] IN
        (c.op = "create" /\ ~Truthy(c.repo)) =>
            /\ "clone" \notin c.issued /\ "user" \notin c.issued
            /\ c.issued \cap GitConfigSteps = {}
            /\ Provisioned(c) => ("mkdir" \in c.issued /\ Workspace(c) = {})

\* C11 (amended): a Provision without repository reference issues no clone
\* and no identity lookup and configures no commit identity (user.name,
\* user.email); it configures the credential helper exactly when it is given
\* a token; it creates /workspace before writing into it, and in the sandbox
\* it returns /workspace holds the server configuration opencode.json only.
C11_NoRepoConfigOnly ==
    \A p \in Procs :
        LET c == call[p] IN
        (c.op = "create" /\ ~Truthy(c.repo)) =>
            /\ "clone" \notin c.issued /\ "user" \notin c.issued
            /\ c.issued \cap {"gitemail", "gitname"} = {}
            /\ "helper" \in c.issued => Truthy(c.pat)
            /\ "config" \in c.issued => "mkdir" \in c.issued
            /\ Provisioned(c) =>
                   /\ "helper" \in c.issued <=> Truthy(c.pat)
                   /\ "mkdir" \in c.issued
                   /\ Workspace(c) = {"opencode.json"}

C11_Witness ==
    \E p \in Procs :
        /\ Provisioned(call[p]) /\ ~Truthy(call[p].repo) /\ Truthy(call[p].pat)
        /\ "helper" \in call[p].issued /\ "mkdir" \in call[p].issued
        /\ Alive(call[p].sb)

IsPrefix(a, b) == Len(a) <= Len(b) /\ SubSeq(b, 1, Len(a)) = a
\* the Resume has run its append
Appended(c) == Truthy(c.key) /\ (c.pc = "launch" \/ "launch" \in c.issued)
Assignments(lines, name) == {i \in 1..Len(lines) : lines[i][1] = name}

\* C12: Resume's append to the secrets file is additive: the file of the
\* resumed sandbox keeps every line of the snapshot's file, in order, and
\* gains at most the new ANTHROPIC_API_KEY assignment as its last line, so
\* after two Resumes with different keys both assignments are in the file in
\* the order of the Resumes and sourcing the file yields the later key.
C12_ResumeAppendAdditive ==
    \A p \in Procs :
        LET c == call[p] IN
        (c.op = "resume" /\ c.sb # 0 /\ Alive(c.sb)) =>
            /\ IsPrefix(images[c.snap], files[c.sb])
            /\ Appended(c) =>
                   /\ files[c.sb] = Append(images[c.snap], ApiKeyLine(c.key))
                   /\ Sourced(files[c.sb], "ANTHROPIC_API_KEY") = c.key
                   /\ Cardinality(Assignments(files[c.sb], "ANTHROPIC_API_KEY"))
                          = Cardinality(Assignments(images[c.snap], "ANTHROPIC_API_KEY")) + 1
            /\ ~Appended(c) => files[c.sb] = images[c.snap]

\* the second of two Resumes in a row (snapshot 1, Resume with sk-key1, Pause,
\* Resume with sk-key2) has returned: both assignments, the later one last
C12_Witness ==
    \E p \in Procs :
        LET c == call[p] IN
        /\ Done(p, "resume") /\ c.result.keys = {"sandbox_id", "tunnel_url"}
        /\ c.snap = 2 /\ c.key = "sk-key2" /\ Alive(c.sb)
        /\ files[c.sb] = images[1] \o <<ApiKeyLine("sk-key1"), ApiKeyLine("sk-key2")>>
        /\ Sourced(files[c.sb], "ANTHROPIC_API_KEY") = "sk-key2"

ResumeNotReady(c) == c.op = "resume" /\ c.pc = "done" /\ PollRanOut(c)

\* C13: a Resume in which no health check returns "200" within the polling
\* budget fails with "server did not become ready after resume", resolves
\* and returns no tunnel URL and issues no terminate; no step of a Resume
\* changes the status of a sandbox, and the sandbox it created is alive when
\* the failure is raised.
C13_ResumeNotReadyLeavesSandbox ==
    /\ [](\A p \in Procs :
             ResumeNotReady(call[p]) =>
                 /\ call[p].result.kind = "raised"
                 /\ call[p].result.error = <<"OpenCode server failed to start after resume">>
                 /\ call[p].result.keys = {} /\ call[p].result.tunnel_url = 0
                 /\ "tunnels" \notin call[p].issued
                 /\ call[p].terms = 0 /\ "terminate" \notin call[p].issued
                 /\ call[p].sb # 0 /\ sbx[call[p].sb] # "none")
    /\ [][\A p \in Procs :
             /\ (call[p].op = "resume" /\ call[p].sb # 0 /\ call'[p] # call[p])
                    => sbx' = sbx
             /\ (ResumeNotReady(call'[p]) /\ ~ResumeNotReady(call[p]))
                    => sbx'[call'[p].sb] = "alive"]_vars

C13_Witness ==
    \E p \in Procs :
        /\ ResumeNotReady(call[p]) /\ Alive(call[p].sb)
        /\ call[p].result.kind = "raised"

\* C14: a ReadFile whose existence check fails returns {"error": "File not
\* found"} and issues no cat; cat is issued only after the existence check on
\* the same path has succeeded.
C14_ReadChecksExistenceFirst ==
    \A p \in Procs :
        LET c == call[p] IN
        c.op = "read_file" =>
            /\ c.rc \notin {-1, 0} =>
                   /\ c.pc = "done" /\ c.result.kind = "returned"
                   /\ c.result.keys = {"error"}
                   /\ c.result.error = <<"File not found">>
                   /\ "cat" \notin c.issued
            /\ c.pc = "cat" => (c.rc = 0 /\ c.cmd = TestCmd(c.path))
            /\ "cat" \in c.issued =>
                   (c.rc = 0 /\ "test" \in c.issued /\ c.cmd = CatCmd(c.path))
            /\ c.result.keys = {"content"} => "cat" \in c.issued

C14_Witness ==
    \E p \in Procs :
        /\ Done(p, "read_file") /\ call[p].rc = 1 /\ Alive(call[p].sb)
        /\ call[p].issued = {"test"}

\* the body lacks a required identifier field, or carries it empty
MissingField(c) ==
    \/ c.op \in {"pause", "terminate", "list_files", "get_logs"} /\ c.sid = 0
    \/ c.op = "resume" /\ c.snapid = 0
    \/ c.op = "read_file" /\ (c.sid = 0 \/ ~Truthy(c.path))
MissingMessages ==
    {<<"Missing sandbox_id">>, <<"Missing snapshot_id">>, <<"Missing sandbox_id or path">>}

\* C15: at the pause, resume, terminate, list_files, read_file and get_logs
\* endpoints a body without (or with an empty) required identifier field is
\* answered with a structured {error} body, and neither the orchestrator
\* function nor any remote sandbox call is issued for the request.
C15_MissingFieldRejected ==
    \A p \in Procs :
        LET c == call[p] IN
        (MissingField(c) /\ c.pc # "recv") =>
            /\ c.pc = "done" /\ c.http = 200
            /\ c.result.kind = "returned" /\ c.result.keys = {"error"}
            /\ c.result.error \in MissingMessages
            /\ c.issued = {} /\ c.terms = 0 /\ c.sb = 0 /\ c.snap = 0

C15_Witness ==
    \E p \in Procs :
        /\ Done(p, "read_file") /\ call[p].sid # 0 /\ Alive(call[p].sid)
        /\ call[p].path = ""
        /\ call[p].result.error = <<"Missing sandbox_id or path">>

\* C16: GetLogs fills its four fields independently: all four are present
\* in the result, and a probe whose command produced no output leaves its
\* own non-empty placeholder in its field, so no field is empty.
C16_ProbeFallbacks ==
    \A p \in Procs :
        LET r == call[p].result IN
        (Done(p, "get_logs") /\ r.keys = {"logs"}) =>
            \A f \in LogFields : r.logs[f] # NoneV /\ r.logs[f] # ""

\* C17: every Provision that does not return {sandbox_id, tunnel_url} leaves
\* the sandbox it created terminated, whichever step after the allocation
\* failed.
C17_FailedProvisionTearsDown ==
    \A p \in Procs :
        LET c == call[p] IN
        (Done(p, "create") /\ ~Provisioned(c) /\ c.sb # 0) =>
            sbx[c.sb] = "terminated"

\* the identity response is not a user-info object: empty output, text that
\* is not JSON, or JSON that is not an object
Malformed(out) == out.kind \in {"empty", "text", "array"}

\* C18: in a Provision with a token and a cloned repository a malformed
\* identity response is not fatal: no exception leaves the identity step, no
\* commit identity is configured, and Provision goes on to the config,
\* secrets, launch and health-poll steps.
C18_MalformedIdentityNonFatal ==
    \A p \in Procs :
        LET c == call[p] IN
        (c.op = "create" /\ Malformed(c.user)) =>
            /\ c.issued \cap {"gitemail", "gitname"} = {}
            /\ c.result.error # AttributeError
            /\ c.pc \in {"config", "touch", "ghtoken", "apikey", "launch", "health",
                         "log", "not_ready", "tunnel", "done"}
            /\ c.pc = "done" => "config" \in c.issued

\* C19: a snapshot is never mutated and can be resumed repeatedly: no step
\* changes or removes an existing snapshot; every Resume obtains a sandbox
\* identifier no sandbox had before, and that sandbox starts with the files
\* the snapshot captured; a step of a Resume writes to the files of its own
\* sandbox only, so the key it appends shows neither in the snapshot nor in
\* another sandbox resumed from it.
C19_SnapshotImmutable ==
    [][/\ \A s \in SnapshotIds :
              snaps[s] => (snaps'[s] /\ images'[s] = images[s])
       /\ \A p \in Procs :
              (call[p].op = "resume" /\ call'[p] # call[p]) =>
                  /\ \A id \in SandboxIds \ {call'[p].sb} : files'[id] = files[id]
                  /\ (call[p].sb = 0 /\ call'[p].sb # 0) =>
                         /\ sbx[call'[p].sb] = "none" /\ sbx'[call'[p].sb] = "alive"
                         /\ files'[call'[p].sb] = images[call[p].snap]
                         /\ call'[p].snap = call[p].snapid]_vars

\* snapshot 1, the only one, has been resumed twice with different keys:
\* two sandboxes, each with the snapshot's lines and its own key only
C19_Witness ==
    \E p \in Procs :
        LET c == call[p] IN
        /\ Done(p, "resume") /\ c.result.keys = {"sandbox_id", "tunnel_url"}
        /\ c.snap = 1 /\ c.sb = 2 /\ c.key = "sk-key2"
        /\ \A s \in SnapshotIds : snaps[s] <=> s = 1
        /\ Alive(1) /\ Alive(2) /\ images[1] # <<>>
        /\ files[1] = Append(images[1], ApiKeyLine("sk-key1"))
        /\ files[2] = Append(images[1], ApiKeyLine("sk-key2"))

\* C20: under every interleaving of concurrent Pause and Terminate calls on
\* one sandbox identifier each call completes with a response; a Pause
\* returns {snapshot_id} only if its own capture succeeded, with the
\* identifier of that capture; a Pause whose capture is issued after the
\* sandbox has been torn down returns an error and never a snapshot_id.
C20_PauseTerminateRace ==
    /\ [](\A p \in RaceProcs :
             LET c == call[p] IN
             c.op = "pause" =>
                 /\ ("snapshot_id" \in c.result.keys \/ c.result.snapshot_id # 0) =>
                        /\ c.snap # 0 /\ snaps[c.snap] /\ "snapshot" \in c.issued
                        /\ c.result.snapshot_id = c.snap /\ ~c.deadAtCapture
                        /\ \A q \in RaceProcs \ {p} : call[q].snap # c.snap
                 /\ c.deadAtCapture =>
                        /\ c.pc = "done" /\ c.snap = 0
                        /\ c.result.kind = "returned" /\ c.result.keys = {"error"}
                        /\ c.result.error[1] = "Snapshot failed: ")
    /\ \A p \in RaceProcs : (call[p].pc = "recv") ~> (call[p].pc = "done")

\* a Terminate has torn the sandbox down between a Pause's lookup and its
\* capture: the Terminate answers success, the Pause an error
C20_Witness ==
    \E p, q \in RaceProcs :
        /\ p # q /\ call[p].sid = call[q].sid
        /\ Done(p, "pause") /\ ~call[p].deadAtStart /\ call[p].deadAtCapture
        /\ call[p].result.keys = {"error"}
        /\ Done(q, "terminate") /\ call[q].result.success /\ call[q].terms = 1
        /\ sbx[call[p].sid] = "terminated"

====
